---- MODULE Spec2Model ----
(***************************************************************************)
(* Model of reverb/cc/sampler.cc: the Sampler core (requested / returned   *)
(* counters, sticky worker status, Close), its worker loop, the two        *)
(* SamplerWorker implementations (GrpcSamplerWorker, LocalSamplerWorker),  *)
(* the consumer calls and the sample queue they meet at. Three objects are *)
(* also modelled on their own, each under a specification of its own: a    *)
(* Sample (SampleSpec), a Sampler::Options (OptionsSpec) and one call of   *)
(* LocalSamplerWorker::FetchSamples against the clock (TimedSpec), and one  *)
(* call of GrpcSamplerWorker::FetchSamples against the responses of its     *)
(* stream (StreamSpec), one call of TimestepTrajectoryAsSample              *)
(* (AssembleSpec) and one call of Sampler::ValidateAgainstOutputSpec        *)
(* (ValidateSpec).                                                          *)
(***************************************************************************)
EXTENDS Integers, Sequences, FiniteSets, TLC

(* ------------------------------ bounds -------------------------------- *)
\* Number of SamplerWorker objects handed to the Sampler constructor.
NumWorkers == 2
\* Largest Options::max_samples explored (max_samples_per_stream likewise).
MaxSamples == 2
Workers == 1..NumWorkers

(* --------------------------- program constants ------------------------ *)
kAutoSelectValue == -1
\* GrpcSamplerWorker::samples_per_request_ / LocalSamplerWorker::flexible_batch_size_
\* (both come from Options::max_in_flight_samples_per_worker).
samples_per_request == 2

Min(a, b) == IF a < b THEN a ELSE b
Max(a, b) == IF a > b THEN a ELSE b

(* ------------------------------ statuses ------------------------------ *)
OK == "OK"
CANCELLED == "CANCELLED"
UNAVAILABLE == "UNAVAILABLE"
INTERNAL == "INTERNAL"
DEADLINE_EXCEEDED == "DEADLINE_EXCEEDED"
OUT_OF_RANGE == "OUT_OF_RANGE"
INVALID_ARGUMENT == "INVALID_ARGUMENT"
FAILED_PRECONDITION == "FAILED_PRECONDITION"
NONE == "NONE"

\* What stream->Finish() reports when the server side ends the stream.
StreamErrors == {UNAVAILABLE, DEADLINE_EXCEEDED}

(* ------------------------------ samples ------------------------------- *)
\* Shapes of assembled samples: two timesteps, a trajectory that cannot be
\* decomposed into timesteps, and one (of one timestep) whose tensors do not
\* match the configured output signature.
SampleKinds == {"T2", "ND", "BS"}
NoSample == [kind |-> "none", left |-> 0]

\* Sample::num_timesteps_
NumTimesteps(kind) == IF kind = "T2" THEN 2 ELSE 1
\* Sample::is_composed_of_timesteps
IsComposedOfTimesteps(kind) == kind # "ND"
\* Sampler::ValidateAgainstOutputSpec
ValidateAgainstOutputSpec(kind) == IF kind = "BS" THEN INVALID_ARGUMENT ELSE OK
\* Sample::AsBatchedTimesteps
AsBatchedTimesteps(kind) == IF IsComposedOfTimesteps(kind) THEN OK ELSE FAILED_PRECONDITION
\* Sample::AsTrajectory
AsTrajectory(kind) == OK

VARIABLES
    mode,                  \* "grpc" or "local": which SamplerWorker the workers are
    max_samples,           \* Sampler::max_samples_
    max_samples_per_stream,\* Sampler::max_samples_per_stream_
    capacity,              \* capacity of samples_
    requested,             \* Sampler::requested_
    returned,              \* Sampler::returned_
    worker_status,         \* Sampler::worker_status_
    closed,                \* Sampler::closed_
    samples,               \* content of the queue samples_: the samples, each named
                           \* by the rank of its push
    samples_closed,        \* samples_ has been closed
    wpc,                   \* position of each worker thread
    fetch,                 \* locals of the FetchSamples call in progress
    result,                \* value returned by FetchSamples
    wclosed,               \* SamplerWorker::closed_
    cpc,                   \* position of the consumer thread
    op,                    \* consumer call in progress
    active_sample,         \* Sampler::active_sample_
    cres,                  \* status returned by the last consumer call
    kpc,                   \* position of the thread that is past the closed_ check
                           \* of Close() (no other thread gets past it)
    ki,                    \* index of the worker loop in Close()
    pushed,                \* number of successful pushes so far
    popped,                \* number of successful pops so far
    last_popped,           \* the sample taken by the last successful pop
    close_returned,        \* some call of Close() has returned
    close_again,           \* Close() has been called with closed_ already set
    call_closed,           \* closed_ was set when the consumer call in progress began
    call_status,           \* worker_status_ when the consumer call in progress began
    call_waiting,          \* the consumer call was blocked in Pop when Close() began
    \* one Sample object, on its own
    chunks,                \* Sample::chunks_: the chunk groups, each a sequence of
                           \* column tensors, each tensor the sequence of its rows
    next_timestep_index,   \* Sample::next_timestep_index_
    next_timestep_called,  \* Sample::next_timestep_called_
    squeeze_columns,       \* Sample::squeeze_columns_
    num_timesteps,         \* Sample::num_timesteps_
    sample_status,         \* status of the last call on the Sample
    sample_call,           \* the last call made on the Sample
    data,                  \* the tensors the last call on the Sample produced
    timesteps,             \* every row GetNextTimestep has produced, in order
    built,                 \* chunks_ as the constructor received them
    \* one Options object, on its own
    options,               \* the fields of Sampler::Options
    validate_status,       \* what Options::Validate returned
    \* one call of LocalSamplerWorker::FetchSamples against the clock, on its own
    now,                   \* absl::Now()
    rate_limiter_timeout,  \* argument of FetchSamples
    num_samples,           \* argument of FetchSamples
    final_deadline,        \* local of FetchSamples
    num_samples_returned,  \* local of FetchSamples
    timeout,               \* local of FetchSamples
    fpc,                   \* position in FetchSamples
    fetch_result,          \* value FetchSamples returned
    worker_closed,         \* LocalSamplerWorker::closed_
    last_available,        \* when the previous sample became available (the
                           \* start of the call before the first)
    steady,                \* every sample so far became available within
                           \* rate_limiter_timeout of the previous one
    \* one call of GrpcSamplerWorker::FetchSamples against its stream, on its own
    samples_per_request_,  \* GrpcSamplerWorker::samples_per_request_
    quota,                 \* argument num_samples of FetchSamples
    produced,              \* local num_samples_returned of FetchSamples
    request,               \* request.num_samples() of the last request written
    request_i,             \* local i: samples of that request pushed so far
    responses,             \* local responses: those read for the sample in progress
    gpc,                   \* position in FetchSamples
    grpc_result,           \* value FetchSamples returned
    grpc_closed,           \* GrpcSamplerWorker::closed_
    requests,              \* num_samples of every request written, in order
    server,                \* the far end of the stream: the item it is sending
    \* one call of TimestepTrajectoryAsSample, on its own
    offset,                \* local offset
    remaining,             \* local remaining
    trajectory_length,     \* TimestepTrajectoryLength of the item's flat trajectory
    unpacked,              \* local chunks: the chunk groups emitted so far, each
                           \* the leading dimensions of its tensors
    last_response,         \* the response processed last: the leading dimensions
                           \* of its tensors as received
    apc,                   \* position in TimestepTrajectoryAsSample
    assemble_status,       \* what TimestepTrajectoryAsSample returned
    \* one call of Sampler::ValidateAgainstOutputSpec, on its own
    dtypes_and_shapes,     \* Sampler::dtypes_and_shapes_
    validated_data,        \* argument data
    validation_mode,       \* argument mode
    validation_status      \* what ValidateAgainstOutputSpec returned

cfg == <<mode, max_samples, max_samples_per_stream, capacity>>
core == <<requested, returned, worker_status, closed>>
queue == <<samples, samples_closed>>
wvars == <<wpc, fetch, result, wclosed>>
cvars == <<cpc, op, active_sample, cres, call_closed, call_status, call_waiting>>
kvars == <<kpc, ki, close_returned, close_again>>
sampler == <<cfg, core, queue, wvars, cvars, kvars, pushed, popped, last_popped>>
svars == <<chunks, next_timestep_index, next_timestep_called, squeeze_columns,
           num_timesteps, sample_status, sample_call, data, timesteps, built>>
ovars == <<options, validate_status>>
fvars == <<now, rate_limiter_timeout, num_samples, final_deadline, num_samples_returned,
           timeout, fpc, fetch_result, worker_closed, last_available, steady>>
\* The state of the objects that are modelled on their own: no step of the
\* sampler's threads touches it.
gvars == <<samples_per_request_, quota, produced, request, request_i, responses, gpc,
           grpc_result, grpc_closed, requests, server>>
avars == <<offset, remaining, trajectory_length, unpacked, last_response, apc,
           assemble_status>>
\* The objects added to the model after the first four.
pvars == <<dtypes_and_shapes, validated_data, validation_mode, validation_status>>
more == <<gvars, avars, pvars>>
apart == <<svars, ovars, fvars, more>>
\* Everything but the call of GrpcSamplerWorker::FetchSamples studied on its own.
outside_gvars == <<sampler, svars, ovars, fvars, avars, pvars>>
\* Everything but the call of TimestepTrajectoryAsSample studied on its own.
outside_avars == <<sampler, svars, ovars, fvars, gvars, pvars>>
\* Everything but the call of ValidateAgainstOutputSpec studied on its own.
outside_pvars == <<sampler, svars, ovars, fvars, gvars, avars>>
vars == <<sampler, apart>>

NoFetch == [n |-> 0, done |-> 0, req |-> 0]
NoResult == [first |-> 0, status |-> NONE]

\* Sampler::Sampler: the sampler after construction from the workers `given`,
\* one thread started for each of them and no thread for the others, with
\* max_samples and max_samples_per_stream of at most `most`.
SamplerInitUpTo(given, most) ==
    /\ mode \in {"grpc", "local"}
    /\ max_samples \in 1..most
    /\ max_samples_per_stream \in 1..most
    /\ \E num_workers \in {kAutoSelectValue, NumWorkers} : capacity = Max(num_workers, 1)
    /\ requested = 0
    /\ returned = 0
    /\ worker_status = OK
    /\ closed = FALSE
    /\ samples = << >>
    /\ samples_closed = FALSE
    /\ wpc = [w \in Workers |-> IF w \in given THEN "wait" ELSE "done"]
    /\ fetch = [w \in Workers |-> NoFetch]
    /\ result = [w \in Workers |-> NoResult]
    /\ wclosed = [w \in Workers |-> FALSE]
    /\ cpc = "idle"
    /\ op = "none"
    /\ active_sample = NoSample
    /\ cres = NONE
    /\ kpc = "idle"
    /\ ki = 0
    /\ pushed = 0
    /\ popped = 0
    /\ last_popped = 0
    /\ close_returned = FALSE
    /\ close_again = FALSE
    /\ call_closed = FALSE
    /\ call_status = OK
    /\ call_waiting = FALSE

\* Sampler::Sampler with NumWorkers workers and max_samples and
\* max_samples_per_stream of at most MaxSamples.
SamplerInit == SamplerInitUpTo(Workers, MaxSamples)

\* No Sample object is under study.
NoSampleObject ==
    /\ chunks = << >>
    /\ next_timestep_index = 0
    /\ next_timestep_called = FALSE
    /\ squeeze_columns = << >>
    /\ num_timesteps = 0
    /\ sample_status = NONE
    /\ sample_call = "none"
    /\ data = << >>
    /\ timesteps = << >>
    /\ built = << >>

\* No Options object is under study.
NoOptions ==
    /\ options = << >>
    /\ validate_status = NONE

\* No single call of FetchSamples is under study.
NoTimedFetch ==
    /\ now = 0
    /\ rate_limiter_timeout = 0
    /\ num_samples = 0
    /\ final_deadline = 0
    /\ num_samples_returned = 0
    /\ timeout = 0
    /\ fpc = "none"
    /\ fetch_result = NoResult
    /\ worker_closed = FALSE
    /\ last_available = 0
    /\ steady = TRUE

\* The server end of a stream before it has sent anything.
NoItem == [item |-> 0, keys |-> {}, left |-> {}, count |-> 0]

\* No call of GrpcSamplerWorker::FetchSamples is under study on its own.
NoStreamFetch ==
    /\ samples_per_request_ = 0
    /\ quota = 0
    /\ produced = 0
    /\ request = 0
    /\ request_i = 0
    /\ responses = << >>
    /\ gpc = "none"
    /\ grpc_result = NoResult
    /\ grpc_closed = FALSE
    /\ requests = << >>
    /\ server = NoItem

\* No call of TimestepTrajectoryAsSample is under study on its own.
NoAssembly ==
    /\ offset = 0
    /\ remaining = 0
    /\ trajectory_length = 0
    /\ unpacked = << >>
    /\ last_response = << >>
    /\ apc = "none"
    /\ assemble_status = NONE

\* No call of Sampler::ValidateAgainstOutputSpec is under study on its own.
NoValidation ==
    /\ dtypes_and_shapes = [has_value |-> FALSE, value |-> << >>]
    /\ validated_data = << >>
    /\ validation_mode = "none"
    /\ validation_status = NONE

\* None of the objects added later is under study.
NoMore == NoStreamFetch /\ NoAssembly /\ NoValidation

Init == SamplerInit /\ NoSampleObject /\ NoOptions /\ NoTimedFetch /\ NoMore

(* ------------------------------ Sampler ------------------------------- *)
\* Only Close() stops the workers.
should_stop_when_closed == closed

\* Sampler::should_stop_workers
should_stop_workers == closed \/ returned = max_samples \/ worker_status # OK

\* FetchSamples returns {first, status}: the worker thread goes on to its refund.
Return(w, first, status) ==
    /\ result' = [result EXCEPT ![w] = [first |-> first, status |-> status]]
    /\ wpc' = [wpc EXCEPT ![w] = "refund"]

\* The quota without the cap max_samples_ - requested_.
samples_to_stream_uncapped == max_samples_per_stream

\* Sampler::RunWorker: the quota handed to one FetchSamples call.
samples_to_stream == Min(max_samples_per_stream, max_samples - requested)

\* A worker is woken only when a whole stream is left to request.
trigger_whole_stream ==
    should_stop_workers \/ requested + max_samples_per_stream <= max_samples

\* Sampler::RunWorker: the condition the worker thread waits for.
trigger == should_stop_workers \/ requested < max_samples

\* Sampler::RunWorker, from LockWhen(trigger) to the call of FetchSamples.
RunWorkerDispatch(w) ==
    /\ wpc[w] = "wait"
    /\ trigger
    /\ IF should_stop_workers
       THEN /\ wpc' = [wpc EXCEPT ![w] = "done"]
            /\ UNCHANGED <<requested, fetch>>
       ELSE /\ requested' = requested + samples_to_stream
            /\ fetch' = [fetch EXCEPT ![w] = [NoFetch EXCEPT !.n = samples_to_stream]]
            /\ wpc' = [wpc EXCEPT ![w] = "fetch"]
    /\ UNCHANGED <<apart, cfg, returned, worker_status, closed, queue, result, wclosed,
                   cvars, kvars, pushed, popped, last_popped>>

\* A later error overwrites an earlier one.
SetsWorkerStatusAlways(w) ==
    result[w].status # OK /\ result[w].status # UNAVAILABLE

\* A CANCELLED result overwrites an earlier error.
SetsWorkerStatusCancelled(w) ==
    /\ result[w].status # OK /\ result[w].status # UNAVAILABLE
    /\ worker_status = OK \/ result[w].status = CANCELLED

\* UNAVAILABLE is as fatal as any other error.
SetsWorkerStatusTransient(w) ==
    worker_status = OK /\ result[w].status # OK

\* Sampler::RunWorker: the result of FetchSamples becomes the sticky status.
SetsWorkerStatus(w) ==
    worker_status = OK /\ result[w].status # OK /\ result[w].status # UNAVAILABLE

\* A broken stream is not refunded.
RefundNothing(w) == 0

\* Sampler::RunWorker: `samples_to_stream - result.first`.
Refund(w) == fetch[w].n - result[w].first

\* The queue is left open when the status is set.
ClosesSamplesWithStatusSkipped == FALSE

\* Sampler::RunWorker: `samples_.Close();  // Unblock any pending calls.`
ClosesSamplesWithStatus == TRUE

\* Sampler::RunWorker, the critical section after FetchSamples has returned.
RunWorkerRefund(w) ==
    /\ wpc[w] = "refund"
    /\ requested' = requested - Refund(w)
    /\ IF SetsWorkerStatus(w)
       THEN /\ worker_status' = result[w].status
            /\ samples_closed' = (samples_closed \/ ClosesSamplesWithStatus)
            /\ wpc' = [wpc EXCEPT ![w] = "done"]
       ELSE /\ wpc' = [wpc EXCEPT ![w] = "wait"]
            /\ UNCHANGED <<worker_status, samples_closed>>
    /\ fetch' = [fetch EXCEPT ![w] = NoFetch]
    /\ result' = [result EXCEPT ![w] = NoResult]
    /\ UNCHANGED <<apart, cfg, returned, closed, samples, wclosed, cvars, kvars, pushed, popped, last_popped>>

(* ------------------------------- queue -------------------------------- *)
\* Queue::Push can complete: the queue is closed (refused) or has room.
PushReady == samples_closed \/ Len(samples) < capacity
\* Queue::Push succeeds.
PushAccepted == ~samples_closed /\ Len(samples) < capacity
\* Queue::Pop can complete: an item is there, or the queue is closed and empty.
PopReady == samples # << >> \/ samples_closed
\* Queue::Pop succeeds.
PopAccepted == samples # << >>
\* The newest item instead of the oldest.
PopItemNewest == samples[Len(samples)]

\* The item Queue::Pop takes.
PopItem == Head(samples)
\* The queue after Queue::Pop.
PopRest == Tail(samples)

(* --------------------------- SamplerWorker ---------------------------- *)
\* The value FetchSamples reports as pushed when it finds closed_ set at the
\* head of its loop.
LocalCancelledFirst(w) == 0

\* queue->Push(std::move(sample)) and what follows it in FetchSamples: the
\* refusal, or ++num_samples_returned and the next iteration of the loops.
PushSample(w) ==
    /\ wpc[w] = "push"
    /\ PushReady
    /\ IF ~PushAccepted
       THEN /\ Return(w, fetch[w].done, CANCELLED)
            /\ UNCHANGED <<samples, pushed, fetch>>
       ELSE /\ samples' = Append(samples, pushed + 1)
            /\ pushed' = pushed + 1
            /\ LET f == [fetch[w] EXCEPT !.done = @ + 1, !.req = @ - 1]
               IN IF f.req > 0
                  THEN IF mode = "grpc"
                       THEN /\ fetch' = [fetch EXCEPT ![w] = f]
                            /\ wpc' = [wpc EXCEPT ![w] = "read"]
                            /\ UNCHANGED result
                       ELSE \* AsSample of the next sampled item
                            \/ /\ fetch' = [fetch EXCEPT ![w] = f]
                               /\ UNCHANGED <<wpc, result>>
                            \/ /\ fetch' = [fetch EXCEPT ![w] = f]
                               /\ Return(w, f.done, INTERNAL)
                  ELSE IF f.done < f.n
                       THEN /\ fetch' = [fetch EXCEPT ![w] = f]
                            /\ wpc' = [wpc EXCEPT ![w] = IF mode = "grpc" THEN "write" ELSE "fetch"]
                            /\ UNCHANGED result
                       ELSE /\ fetch' = [fetch EXCEPT ![w] = f]
                            /\ Return(w, f.done, OK)
    /\ UNCHANGED <<apart, cfg, core, samples_closed, wclosed, cvars, kvars, popped, last_popped>>

\* GrpcSamplerWorker::FetchSamples: the closed_ check and the new stream.
GrpcOpenStream(w) ==
    /\ mode = "grpc"
    /\ wpc[w] = "fetch"
    /\ IF wclosed[w]
       THEN Return(w, 0, CANCELLED)
       ELSE /\ wpc' = [wpc EXCEPT ![w] = "write"]
            /\ UNCHANGED result
    /\ UNCHANGED <<apart, cfg, core, queue, fetch, wclosed, cvars, kvars, pushed, popped, last_popped>>

\* GrpcSamplerWorker::FetchSamples: stream->Write(request). A cancelled context
\* fails the write with CANCELLED; the server may fail it with any StreamErrors.
GrpcWrite(w) ==
    /\ mode = "grpc"
    /\ wpc[w] = "write"
    /\ IF wclosed[w]
       THEN /\ Return(w, fetch[w].done, CANCELLED)
            /\ UNCHANGED fetch
       ELSE \/ /\ fetch' = [fetch EXCEPT ![w].req =
                               Min(samples_per_request, fetch[w].n - fetch[w].done)]
               /\ wpc' = [wpc EXCEPT ![w] = "read"]
               /\ UNCHANGED result
            \/ /\ \E s \in StreamErrors : Return(w, fetch[w].done, s)
               /\ UNCHANGED fetch
    /\ UNCHANGED <<apart, cfg, core, queue, wclosed, cvars, kvars, pushed, popped, last_popped>>

\* GrpcSamplerWorker::FetchSamples: the reads of one sample's responses until
\* SampleIsDone, then AsSample.
GrpcReadSample(w) ==
    /\ mode = "grpc"
    /\ wpc[w] = "read"
    /\ IF wclosed[w]
       THEN Return(w, fetch[w].done, CANCELLED)
       ELSE \/ /\ wpc' = [wpc EXCEPT ![w] = "push"]
               /\ UNCHANGED result
            \/ \E s \in StreamErrors \cup {INTERNAL} : Return(w, fetch[w].done, s)
    /\ UNCHANGED fetch
    /\ UNCHANGED <<apart, cfg, core, queue, wclosed, cvars, kvars, pushed, popped, last_popped>>

\* LocalSamplerWorker::FetchSamples: the closed_ check at the head of the loop.
LocalCheckClosed(w) ==
    /\ mode = "local"
    /\ wpc[w] = "fetch"
    /\ IF wclosed[w]
       THEN Return(w, LocalCancelledFirst(w), CANCELLED)
       ELSE /\ wpc' = [wpc EXCEPT ![w] = "table"]
            /\ UNCHANGED result
    /\ UNCHANGED <<apart, cfg, core, queue, fetch, wclosed, cvars, kvars, pushed, popped, last_popped>>

\* LocalSamplerWorker::FetchSamples: table_->SampleFlexibleBatch and the
\* handling of its status, up to AsSample of the first item.
LocalSampleFlexibleBatch(w) ==
    /\ mode = "local"
    /\ wpc[w] = "table"
    /\ \/ \* deadline exceeded before final_deadline: a wake-up
          /\ wpc' = [wpc EXCEPT ![w] = "fetch"]
          /\ UNCHANGED <<fetch, result>>
       \/ \* deadline exceeded at final_deadline
          /\ Return(w, fetch[w].done, DEADLINE_EXCEEDED)
          /\ UNCHANGED fetch
       \/ \E items \in 1..Min(samples_per_request, fetch[w].n - fetch[w].done) :
            \/ /\ fetch' = [fetch EXCEPT ![w].req = items]
               /\ wpc' = [wpc EXCEPT ![w] = "push"]
               /\ UNCHANGED result
            \/ /\ fetch' = [fetch EXCEPT ![w].req = items]
               /\ Return(w, fetch[w].done, INTERNAL)
    /\ UNCHANGED <<apart, cfg, core, queue, wclosed, cvars, kvars, pushed, popped, last_popped>>

(* ------------------------------ consumer ------------------------------ *)
Ops == {"timestep", "sample", "trajectory"}

\* Sampler::MaybeSampleNext: the active sample still has timesteps.
HasActiveSample == active_sample # NoSample /\ active_sample.left > 0

\* closed_ tested before returned_ == max_samples_.
PopFailedStatusClosedFirst ==
    IF closed THEN CANCELLED
    ELSE IF returned = max_samples THEN OUT_OF_RANGE
    ELSE worker_status

\* closed_ not tested at all.
PopFailedStatusNoClosed ==
    IF returned = max_samples THEN OUT_OF_RANGE
    ELSE worker_status

\* worker_status_ as it was read before samples_.Pop.
PopFailedStatusBeforePop ==
    IF returned = max_samples THEN OUT_OF_RANGE
    ELSE IF closed THEN CANCELLED
    ELSE call_status

\* Sampler::PopNextSample, after samples_.Pop has failed: the status returned.
PopFailedStatus ==
    IF returned = max_samples THEN OUT_OF_RANGE
    ELSE IF closed THEN CANCELLED
    ELSE worker_status

\* The consumer call returns `status`.
Finish(status) ==
    /\ cres' = status
    /\ cpc' = "idle"
    /\ op' = "none"
    /\ call_closed' = FALSE
    /\ call_status' = OK
    /\ call_waiting' = FALSE

\* The consumer call goes on to position `pc`.
Proceed(pc) ==
    /\ cpc' = pc
    /\ UNCHANGED <<cres, op, call_closed, call_status, call_waiting>>

\* Sampler::GetNextTimestep from the return of MaybeSampleNext to the critical
\* section: `a` is the active sample.
TimestepBody(a) ==
    IF ~IsComposedOfTimesteps(a.kind)
    THEN /\ active_sample' = a
         /\ Finish(INVALID_ARGUMENT)
    ELSE /\ active_sample' = [a EXCEPT !.left = @ - 1]
         /\ IF ValidateAgainstOutputSpec(a.kind) # OK
            THEN Finish(ValidateAgainstOutputSpec(a.kind))
            ELSE IF a.left = 1
                 THEN Proceed("count")
                 ELSE Finish(OK)

\* Sampler::GetNextSample / GetNextTrajectory from the successful pop to the
\* critical section: materialize and validate the popped sample.
BatchBody(kind, materialized) ==
    IF materialized # OK
    THEN Finish(materialized)
    ELSE IF ValidateAgainstOutputSpec(kind) # OK
         THEN Finish(ValidateAgainstOutputSpec(kind))
         ELSE Proceed("count")

\* A consumer call begins: GetNextTimestep with an active sample goes on
\* without a pop; every other call reaches samples_.Pop.
ConsumerCall(o) ==
    /\ cpc = "idle"
    /\ IF o = "timestep" /\ HasActiveSample
       THEN TimestepBody(active_sample)
       ELSE /\ cpc' = "pop"
            /\ op' = o
            /\ cres' = NONE
            /\ call_closed' = closed
            /\ call_status' = worker_status
            /\ call_waiting' = FALSE
            /\ UNCHANGED active_sample
    /\ UNCHANGED <<apart, cfg, core, queue, wvars, kvars, pushed, popped, last_popped>>

\* Sampler::PopNextSample: samples_.Pop, and on success the rest of the call up
\* to its critical section.
PopNextSample ==
    /\ cpc = "pop"
    /\ PopReady
    /\ IF PopAccepted
       THEN /\ samples' = PopRest
            /\ popped' = popped + 1
            /\ last_popped' = PopItem
            /\ IF op = "timestep"
               THEN \E kind \in SampleKinds :
                        TimestepBody([kind |-> kind, left |-> NumTimesteps(kind)])
               ELSE /\ \E kind \in SampleKinds :
                         BatchBody(kind, IF op = "sample" THEN AsBatchedTimesteps(kind)
                                         ELSE AsTrajectory(kind))
                    /\ UNCHANGED active_sample
       ELSE /\ Proceed("status")
            /\ UNCHANGED <<samples, popped, last_popped, active_sample>>
    /\ UNCHANGED <<apart, cfg, core, samples_closed, wvars, kvars, pushed>>

\* Sampler::PopNextSample: the reader-locked section after a failed pop.
PopNextSampleFailed ==
    /\ cpc = "status"
    /\ Finish(PopFailedStatus)
    /\ UNCHANGED <<apart, cfg, core, queue, wvars, kvars, active_sample, pushed, popped, last_popped>>

\* The queue is left open when the last sample is returned.
ReturnedReachesMaxIgnored == FALSE

\* `++returned_ == max_samples_`
ReturnedReachesMax == returned + 1 = max_samples

\* The critical section that ends GetNextTimestep / GetNextSample /
\* GetNextTrajectory: if (++returned_ == max_samples_) samples_.Close().
CountReturned ==
    /\ cpc = "count"
    /\ returned' = returned + 1
    /\ samples_closed' = (samples_closed \/ ReturnedReachesMax)
    /\ Finish(OK)
    /\ UNCHANGED <<apart, cfg, requested, worker_status, closed, samples, wvars, kvars,
                   active_sample, pushed, popped, last_popped>>

(* ------------------------------- Close -------------------------------- *)
\* Close() without its early return.
CloseNeverReturnsEarly == FALSE

\* Sampler::Close: `if (closed_) return;`
CloseReturnsEarly == closed

\* Sampler::Close: the critical section at its head. Any application thread may
\* call Close() at any time; a call that finds closed_ set returns at once.
CloseEnter ==
    /\ close_again' = (close_again \/ closed)
    /\ IF CloseReturnsEarly
       THEN /\ close_returned' = TRUE
            /\ UNCHANGED <<closed, kpc, ki, call_waiting>>
       ELSE /\ closed' = TRUE
            /\ kpc' = "cancel"
            /\ ki' = 1
            /\ call_waiting' = (cpc = "pop" /\ ~PopReady)
            /\ UNCHANGED close_returned
    /\ UNCHANGED <<apart, cfg, requested, returned, worker_status, queue, wvars, cpc, op,
                   active_sample, cres, call_closed, call_status, pushed, popped, last_popped>>

\* Close() without worker->Cancel().
CloseCancelSkipped ==
    /\ kpc = "cancel"
    /\ IF ki = NumWorkers
       THEN /\ kpc' = "qclose"
            /\ ki' = 0
       ELSE /\ ki' = ki + 1
            /\ UNCHANGED kpc
    /\ UNCHANGED <<apart, cfg, core, queue, wvars, cvars, close_returned, close_again,
                   pushed, popped, last_popped>>

\* Sampler::Close: worker->Cancel() of the next worker (SamplerWorker::Cancel).
CloseCancel ==
    /\ kpc = "cancel"
    /\ wclosed' = [wclosed EXCEPT ![ki] = TRUE]
    /\ IF ki = NumWorkers
       THEN /\ kpc' = "qclose"
            /\ ki' = 0
       ELSE /\ ki' = ki + 1
            /\ UNCHANGED kpc
    /\ UNCHANGED <<apart, cfg, core, queue, wpc, fetch, result, cvars, close_returned,
                   close_again, pushed, popped, last_popped>>

\* Sampler::Close: samples_.Close().
CloseQueue ==
    /\ kpc = "qclose"
    /\ samples_closed' = TRUE
    /\ kpc' = "join"
    /\ UNCHANGED <<apart, cfg, core, samples, wvars, cvars, ki, close_returned, close_again,
                   pushed, popped, last_popped>>

\* Sampler::Close: worker_threads_.clear() joins every worker thread, then the
\* call returns.
CloseJoin ==
    /\ kpc = "join"
    /\ \A w \in Workers : wpc[w] = "done"
    /\ kpc' = "returned"
    /\ close_returned' = TRUE
    /\ UNCHANGED <<apart, cfg, core, queue, wvars, cvars, ki, close_again, pushed, popped, last_popped>>

(* --------------------------- specification ---------------------------- *)
WorkerStep(w) ==
    \/ RunWorkerDispatch(w)
    \/ GrpcOpenStream(w)
    \/ GrpcWrite(w)
    \/ GrpcReadSample(w)
    \/ LocalCheckClosed(w)
    \/ LocalSampleFlexibleBatch(w)
    \/ PushSample(w)
    \/ RunWorkerRefund(w)

ConsumerStep ==
    \/ \E o \in Ops : ConsumerCall(o)
    \/ PopNextSample
    \/ PopNextSampleFailed
    \/ CountReturned

CloseStep ==
    \/ CloseEnter
    \/ CloseCancel
    \/ CloseQueue
    \/ CloseJoin

Next ==
    \/ \E w \in Workers : WorkerStep(w)
    \/ ConsumerStep
    \/ CloseStep

Spec == Init /\ [][Next]_vars

\* The steps of a worker thread that do not wait for the server: a write or a
\* read on the stream is only sure to return once the context is cancelled,
\* while the table call always returns within its timeout.
WorkerProgress(w) ==
    \/ RunWorkerDispatch(w)
    \/ GrpcOpenStream(w)
    \/ wclosed[w] /\ GrpcWrite(w)
    \/ wclosed[w] /\ GrpcReadSample(w)
    \/ LocalCheckClosed(w)
    \/ LocalSampleFlexibleBatch(w)
    \/ PushSample(w)
    \/ RunWorkerRefund(w)

\* Threads are scheduled by the operating system: a worker thread, the thread
\* inside Close() and a consumer call in progress each take their next step
\* when it is enabled. Whether the application begins a consumer call or calls
\* Close() at all is up to the application, and whether the server answers is
\* up to the server.
Fairness ==
    /\ \A w \in Workers : WF_vars(WorkerProgress(w))
    /\ WF_vars(CloseCancel \/ CloseQueue \/ CloseJoin)
    /\ WF_vars(PopNextSample \/ PopNextSampleFailed \/ CountReturned)

\* The configurations in which every way of blocking occurs: the queue is
\* smaller than max_samples, so that a push can find it full.
FairInit ==
    /\ Init
    /\ max_samples = MaxSamples
    /\ capacity = 1

FairSpec == FairInit /\ [][Next]_vars /\ Fairness

\* A sampler constructed with a single worker.
OneWorkerInit == SamplerInitUpTo({1}, MaxSamples) /\ NoSampleObject /\ NoOptions /\ NoTimedFetch /\ NoMore

\* The threads take their steps; moreover the server answers every write and
\* every read, with a sample or with an error, and a consumer call in progress
\* goes on. Whether the application calls at all is left to it.
OneWorkerFairness ==
    /\ \A w \in Workers : WF_vars(WorkerStep(w))
    /\ WF_vars(PopNextSample \/ PopNextSampleFailed \/ CountReturned)

OneWorkerSpec == OneWorkerInit /\ [][Next]_vars /\ OneWorkerFairness

\* A sampler on which Close() is never called, with a queue of capacity 1 and
\* max_samples of one more than MaxSamples, so that a worker can be blocked on
\* its push while another one has quota left.
UnclosedInit ==
    /\ SamplerInitUpTo(Workers, MaxSamples + 1)
    /\ max_samples = MaxSamples + 1
    /\ capacity = 1
    /\ NoSampleObject /\ NoOptions /\ NoTimedFetch /\ NoMore

\* The steps of the worker threads and of the consumer.
UnclosedNext ==
    \/ \E w \in Workers : WorkerStep(w)
    \/ ConsumerStep

\* The worker threads and a consumer call in progress take their steps;
\* whether the server answers is up to the server.
UnclosedSpec == UnclosedInit /\ [][UnclosedNext]_vars /\ Fairness

(* ------------------------------- Sample ------------------------------- *)
\* A Sample object on its own, as AsSample builds it and as its public member
\* functions change it.

\* Largest number of chunk groups, largest leading dimension of a tensor and
\* number of data columns explored.
MaxGroups == 2
MaxBatch == 3
NumColumns == 2
Columns == 1..NumColumns

DATA_LOSS == "DATA_LOSS"
\* A failed REVERB_CHECK ends the process.
ABORTED == "ABORTED"

\* The calls that can be made on a Sample.
SampleCalls == {"GetNextTimestep", "AsBatchedTimesteps", "AsTrajectory"}

\* A column tensor of chunk group g with `length` rows: row i is named <<g, i>>.
Tensor(g, length) == [i \in 1..length |-> <<g, i>>]

\* TimestepTrajectoryAsSample: one chunk group per response, all the tensors of
\* a group with the same leading dimension.
TimestepChunks ==
    UNION { { [g \in 1..k |-> [c \in Columns |-> Tensor(g, bs[g])]] :
                bs \in [1..k -> 1..MaxBatch] } : k \in 1..MaxGroups }

\* AsSample, the general case: a single chunk group that holds each column
\* concatenated, the columns of any lengths.
GeneralChunks ==
    { << [c \in Columns |-> Tensor(1, lens[c])] >> : lens \in [Columns -> 1..MaxBatch] }

\* tensorflow::tensor::Concat of the tensors `ts` along the leading dimension.
RECURSIVE Concat(_)
Concat(ts) == IF ts = << >> THEN << >> ELSE Head(ts) \o Concat(Tail(ts))

\* The tensors of column c, one per chunk group of cs.
ColumnChunks(cs, c) == [g \in 1..Len(cs) |-> cs[g][c]]

\* Sample::Sample: the sum over the chunk groups of batches.front().dim_size(0).
RECURSIVE SumOfBatchSizes(_)
SumOfBatchSizes(cs) ==
    IF cs = << >> THEN 0 ELSE Len(Head(cs)[1]) + SumOfBatchSizes(Tail(cs))

\* Sample::Sample
SampleInit ==
    /\ chunks \in TimestepChunks \cup GeneralChunks
    /\ squeeze_columns \in [Columns -> BOOLEAN]
    /\ num_timesteps = SumOfBatchSizes(chunks)
    /\ next_timestep_index = 0
    /\ next_timestep_called = FALSE
    /\ sample_status = NONE
    /\ sample_call = "none"
    /\ data = << >>
    /\ timesteps = << >>
    /\ built = chunks

\* Sample::is_end_of_sample
is_end_of_sample == chunks = << >>

\* Sample::is_composed_of_timesteps (chunks_ not empty): every column has the
\* total length of the first.
is_composed_of_timesteps ==
    \A c \in Columns :
        Len(Concat(ColumnChunks(chunks, c))) = Len(Concat(ColumnChunks(chunks, 1)))

\* The first row of the head group whatever the cursor.
NextTimestepFirstRow == [c \in Columns |-> chunks[1][c][1]]

\* Sample::GetNextTimestep: t.SubSlice(next_timestep_index_) of every tensor t
\* of chunks_.front().
NextTimestep == [c \in Columns |-> chunks[1][c][next_timestep_index + 1]]

\* The call returns `status`; the Sample is left as it is.
SampleFails(call, status) ==
    /\ sample_call' = call
    /\ sample_status' = status
    /\ UNCHANGED <<chunks, next_timestep_index, next_timestep_called, squeeze_columns,
                   num_timesteps, data, timesteps, built>>

\* The call has emptied chunks_ and returns `status` without output.
SampleFailsEmptied(call, status) ==
    /\ sample_call' = call
    /\ sample_status' = status
    /\ chunks' = << >>
    /\ UNCHANGED <<next_timestep_index, next_timestep_called, squeeze_columns,
                   num_timesteps, data, timesteps, built>>

\* The call has emptied chunks_ and returns OK with `out`: the length of the
\* metadata tensors (0 for scalars) and the column tensors.
SampleSucceeds(call, meta, columns) ==
    /\ sample_call' = call
    /\ sample_status' = OK
    /\ chunks' = << >>
    /\ data' = [meta |-> meta, columns |-> columns]
    /\ UNCHANGED <<next_timestep_index, next_timestep_called, squeeze_columns,
                   num_timesteps, timesteps, built>>

\* Sample::GetNextTimestep
Sample_GetNextTimestep ==
    /\ sample_status # ABORTED
    /\ IF is_end_of_sample \/ ~is_composed_of_timesteps
       THEN SampleFails("GetNextTimestep", ABORTED)
       ELSE /\ sample_call' = "GetNextTimestep"
            /\ sample_status' = OK
            /\ data' = [meta |-> 0, columns |-> NextTimestep]
            /\ timesteps' = Append(timesteps, NextTimestep)
            /\ IF next_timestep_index + 1 = Len(chunks[1][1])
               THEN /\ chunks' = Tail(chunks)
                    /\ next_timestep_index' = 0
               ELSE /\ next_timestep_index' = next_timestep_index + 1
                    /\ UNCHANGED chunks
            /\ next_timestep_called' = TRUE
            /\ UNCHANGED <<squeeze_columns, num_timesteps, built>>
    /\ UNCHANGED <<sampler, ovars, fvars, more>>

\* The views are not exclusive: materialization goes on after iteration.
HasBeenIteratedIgnored == FALSE

\* Sample::AsBatchedTimesteps / AsTrajectory: `if (next_timestep_called_)`.
HasBeenIterated == next_timestep_called

\* Sample::AsBatchedTimesteps. On a Sample that is at end-of-sample,
\* is_composed_of_timesteps reads chunks_.front() of an empty deque: the call
\* may end the process, or go on either way; Concat of no tensors fails.
Sample_AsBatchedTimesteps ==
    /\ sample_status # ABORTED
    /\ IF HasBeenIterated
       THEN SampleFails("AsBatchedTimesteps", DATA_LOSS)
       ELSE IF is_end_of_sample
            THEN \/ SampleFails("AsBatchedTimesteps", ABORTED)
                 \/ SampleFails("AsBatchedTimesteps", FAILED_PRECONDITION)
                 \/ SampleFails("AsBatchedTimesteps", INVALID_ARGUMENT)
            ELSE IF ~is_composed_of_timesteps
                 THEN SampleFails("AsBatchedTimesteps", FAILED_PRECONDITION)
                 ELSE \/ SampleSucceeds("AsBatchedTimesteps", num_timesteps,
                            [c \in Columns |-> Concat(ColumnChunks(chunks, c))])
                      \/ /\ Len(chunks) > 1
                         /\ SampleFailsEmptied("AsBatchedTimesteps", INVALID_ARGUMENT)
    /\ UNCHANGED <<sampler, ovars, fvars, more>>

\* Sample::AsTrajectory: the column tensors before the squeeze.
ColumnSequences(cs) ==
    IF Len(cs) = 1 THEN cs[1] ELSE [c \in Columns |-> Concat(ColumnChunks(cs, c))]

\* Sample::AsTrajectory: a column that is to be squeezed has a leading dimension
\* other than 1.
SqueezeFails(cs) == \E c \in Columns : squeeze_columns[c] /\ Len(ColumnSequences(cs)[c]) # 1

\* Sample::AsTrajectory: the column tensors after the squeeze.
Squeezed(cs) ==
    [c \in Columns |-> IF squeeze_columns[c] THEN ColumnSequences(cs)[c][1] ELSE ColumnSequences(cs)[c]]

\* Sample::AsTrajectory
Sample_AsTrajectory ==
    /\ sample_status # ABORTED
    /\ IF HasBeenIterated
       THEN SampleFails("AsTrajectory", DATA_LOSS)
       ELSE IF is_end_of_sample
            THEN SampleFails("AsTrajectory", INVALID_ARGUMENT)
            ELSE \/ IF SqueezeFails(chunks)
                    THEN SampleFailsEmptied("AsTrajectory", INTERNAL)
                    ELSE SampleSucceeds("AsTrajectory", 0, Squeezed(chunks))
                 \/ /\ Len(chunks) > 1
                    /\ SampleFailsEmptied("AsTrajectory", INVALID_ARGUMENT)
    /\ UNCHANGED <<sampler, ovars, fvars, more>>

\* The sampler of a specification that studies another object: constructed,
\* and never run.
SamplerApart ==
    /\ SamplerInit
    /\ mode = "grpc"
    /\ max_samples = 1
    /\ max_samples_per_stream = 1
    /\ capacity = 1

SampleNext ==
    \/ Sample_GetNextTimestep
    \/ Sample_AsBatchedTimesteps
    \/ Sample_AsTrajectory

\* A Sample has been constructed; nothing else is under study.
SampleSpecInit == SamplerApart /\ SampleInit /\ NoOptions /\ NoTimedFetch /\ NoMore

SampleSpec == SampleSpecInit /\ [][SampleNext]_vars

(* ------------------- LocalSamplerWorker against the clock -------------- *)
\* One call of LocalSamplerWorker::FetchSamples with the times at which the
\* table makes its samples available. Time is counted in seconds and passes
\* only while the worker waits in the table.

\* `static const auto kWakeupTimeout = absl::Seconds(3);`
kWakeupTimeout == 3
\* Largest rate_limiter_timeout and largest num_samples explored.
MaxTimeout == 4
MaxQuota == 2

\* LocalSamplerWorker::FetchSamples: the first lines of the call.
TimedFetchInit ==
    /\ now = 0
    /\ rate_limiter_timeout \in 0..MaxTimeout
    /\ num_samples \in 1..MaxQuota
    /\ final_deadline = now + rate_limiter_timeout
    /\ num_samples_returned = 0
    /\ timeout = 0
    /\ fpc = "head"
    /\ fetch_result = NoResult
    /\ worker_closed = FALSE
    /\ last_available = now
    /\ steady = TRUE

\* FetchSamples returns {first, status}.
TimedReturn(first, status) ==
    /\ fetch_result' = [first |-> first, status |-> status]
    /\ fpc' = "returned"

\* The timeout without the wake-up: all that is left to final_deadline.
TimeoutToFinalDeadline == final_deadline - now

\* `std::min(final_deadline, absl::Now() + kWakeupTimeout) - absl::Now()`
TimeoutOfTableCall == Min(final_deadline, now + kWakeupTimeout) - now

\* LocalSamplerWorker::FetchSamples: the head of the loop, up to the call of
\* the table.
TimedFetchHead ==
    /\ fpc = "head"
    /\ IF num_samples_returned >= num_samples
       THEN /\ TimedReturn(num_samples_returned, OK)
            /\ UNCHANGED timeout
       ELSE IF worker_closed
            THEN /\ TimedReturn(0, CANCELLED)
                 /\ UNCHANGED timeout
            ELSE /\ timeout' = TimeoutOfTableCall
                 /\ fpc' = "table"
                 /\ UNCHANGED fetch_result
    /\ UNCHANGED <<now, rate_limiter_timeout, num_samples, final_deadline,
                   num_samples_returned, worker_closed, last_available, steady>>
    /\ UNCHANGED <<sampler, svars, ovars, more>>

\* Table::SampleFlexibleBatch(&items, batch_size, timeout) returns items when
\* the rate limiter lets the next sample through after a wait of
\* `wait` <= timeout.
TableAnswersInTime(wait) == wait <= timeout

\* LocalSamplerWorker::FetchSamples: the call of the table and what follows it
\* up to the next head of the loop. The next sample becomes available after a
\* wait the table decides; the call returns it, with those available at the
\* same time up to batch_size, or DeadlineExceeded once `timeout` has passed.
TimedFetchTable ==
    /\ fpc = "table"
    /\ \E wait \in 0..(timeout + 1) :
         IF TableAnswersInTime(wait)
         THEN /\ now' = now + wait
              /\ last_available' = now + wait
              /\ steady' = (steady /\ now + wait - last_available <= rate_limiter_timeout)
              /\ \E items \in 1..Min(samples_per_request, num_samples - num_samples_returned) :
                   \/ /\ num_samples_returned' = num_samples_returned + items
                      /\ fpc' = "head"
                      /\ UNCHANGED fetch_result
                   \/ \E pushes \in 0..(items - 1) :
                        /\ num_samples_returned' = num_samples_returned + pushes
                        /\ \/ TimedReturn(num_samples_returned + pushes, INTERNAL)
                           \/ /\ worker_closed
                              /\ TimedReturn(num_samples_returned + pushes, CANCELLED)
         ELSE /\ now' = now + timeout
              /\ IF now + timeout < final_deadline
                 THEN /\ fpc' = "head"
                      /\ UNCHANGED fetch_result
                 ELSE TimedReturn(num_samples_returned, DEADLINE_EXCEEDED)
              /\ UNCHANGED <<num_samples_returned, last_available, steady>>
    /\ UNCHANGED <<rate_limiter_timeout, num_samples, final_deadline, timeout, worker_closed>>
    /\ UNCHANGED <<sampler, svars, ovars, more>>

\* LocalSamplerWorker::Cancel
TimedCancel ==
    /\ fpc # "returned"
    /\ ~worker_closed
    /\ worker_closed' = TRUE
    /\ UNCHANGED <<now, rate_limiter_timeout, num_samples, final_deadline,
                   num_samples_returned, timeout, fpc, fetch_result, last_available, steady>>
    /\ UNCHANGED <<sampler, svars, ovars, more>>

TimedNext ==
    \/ TimedFetchHead
    \/ TimedFetchTable
    \/ TimedCancel

\* FetchSamples has been called; nothing else is under study.
TimedSpecInit == SamplerApart /\ NoSampleObject /\ NoOptions /\ TimedFetchInit /\ NoMore

TimedSpec == TimedSpecInit /\ [][TimedNext]_vars

(* ------------------------------ Options ------------------------------- *)
\* Sampler::kUnlimitedMaxSamples
kUnlimitedMaxSamples == -1
\* The fields of Sampler::Options take their values in -MaxOption..MaxOption
\* (rate_limiter_timeout in seconds).
MaxOption == 2
OptionFields == {"max_samples", "max_in_flight_samples_per_worker", "num_workers",
                 "max_samples_per_stream", "rate_limiter_timeout", "flexible_batch_size"}

\* An Options object with any values in its fields.
OptionsInit ==
    /\ options \in [OptionFields -> (0 - MaxOption)..MaxOption]
    /\ validate_status = NONE

\* Options::Validate without the test of rate_limiter_timeout.
ValidateNoTimeout(o) ==
    IF o.max_samples < 1 /\ o.max_samples # kUnlimitedMaxSamples THEN INVALID_ARGUMENT
    ELSE IF o.max_in_flight_samples_per_worker < 1 THEN INVALID_ARGUMENT
    ELSE IF o.num_workers < 1 /\ o.num_workers # kAutoSelectValue THEN INVALID_ARGUMENT
    ELSE IF o.max_samples_per_stream < 1 /\ o.max_samples_per_stream # kUnlimitedMaxSamples
         THEN INVALID_ARGUMENT
    ELSE IF o.flexible_batch_size < 1 /\ o.flexible_batch_size # kAutoSelectValue
         THEN INVALID_ARGUMENT
    ELSE OK

\* Sampler::Options::Validate
Validate(o) ==
    IF o.max_samples < 1 /\ o.max_samples # kUnlimitedMaxSamples THEN INVALID_ARGUMENT
    ELSE IF o.max_in_flight_samples_per_worker < 1 THEN INVALID_ARGUMENT
    ELSE IF o.num_workers < 1 /\ o.num_workers # kAutoSelectValue THEN INVALID_ARGUMENT
    ELSE IF o.max_samples_per_stream < 1 /\ o.max_samples_per_stream # kUnlimitedMaxSamples
         THEN INVALID_ARGUMENT
    ELSE IF o.rate_limiter_timeout < 0 THEN INVALID_ARGUMENT
    ELSE IF o.flexible_batch_size < 1 /\ o.flexible_batch_size # kAutoSelectValue
         THEN INVALID_ARGUMENT
    ELSE OK

\* A call of options.Validate().
OptionsValidate ==
    /\ validate_status = NONE
    /\ validate_status' = Validate(options)
    /\ UNCHANGED options
    /\ UNCHANGED <<sampler, svars, fvars, more>>

OptionsNext == OptionsValidate

\* An Options object has been filled in; nothing else is under study.
OptionsSpecInit == SamplerApart /\ NoSampleObject /\ OptionsInit /\ NoTimedFetch /\ NoMore

OptionsSpec == OptionsSpecInit /\ [][OptionsNext]_vars

(* ------------- GrpcSamplerWorker against the stream's responses -------- *)
\* One call of GrpcSamplerWorker::FetchSamples with the requests it writes and
\* the responses it reads. The far end sends each item as one response that
\* carries info (the chunk keys of the item's flat trajectory), with or without
\* data, followed by one response with data for each chunk key not yet sent.

\* Largest num_samples explored, and the chunk keys 0..MaxChunkKey.
MaxStreamQuota == 3
MaxChunkKey == 1
ChunkKeys == 0..MaxChunkKey

\* GrpcSamplerWorker::GrpcSamplerWorker and the first lines of FetchSamples.
StreamFetchInit ==
    /\ samples_per_request_ \in 1..samples_per_request
    /\ quota \in 1..MaxStreamQuota
    /\ produced = 0
    /\ request = 0
    /\ request_i = 0
    /\ responses = << >>
    /\ gpc = "open"
    /\ grpc_result = NoResult
    /\ grpc_closed = FALSE
    /\ requests = << >>
    /\ server = NoItem

\* FetchSamples returns {first, status}.
StreamReturn(first, status) ==
    /\ grpc_result' = [first |-> first, status |-> status]
    /\ gpc' = "returned"

\* The chunk key of every response counts, also that of a response without data.
SampleIsDoneAnyResponse(sample) ==
    IF sample = << >> THEN FALSE
    ELSE LET received_chunks == {sample[j].chunk_key : j \in 1..Len(sample)}
         IN \A key \in sample[1].keys : key \in received_chunks

\* SampleIsDone
SampleIsDone(sample) ==
    IF sample = << >> THEN FALSE
    ELSE LET received_chunks ==
                 {sample[j].chunk_key : j \in {k \in 1..Len(sample) : sample[k].has_data}}
         IN \A key \in sample[1].keys : key \in received_chunks

\* The request asks for samples_per_request_ whatever is left of the quota.
RequestNumSamplesWhole == samples_per_request_

\* `std::min(samples_per_request_, num_samples - num_samples_returned)`
RequestNumSamples == Min(samples_per_request_, quota - produced)

\* GrpcSamplerWorker::FetchSamples: the closed_ check and the new stream.
StreamOpen ==
    /\ gpc = "open"
    /\ IF grpc_closed
       THEN StreamReturn(0, CANCELLED)
       ELSE /\ gpc' = "write"
            /\ UNCHANGED grpc_result
    /\ UNCHANGED <<samples_per_request_, quota, produced, request, request_i, responses,
                   grpc_closed, requests, server>>
    /\ UNCHANGED outside_gvars

\* GrpcSamplerWorker::FetchSamples: the head of the while loop, the request
\* and stream->Write(request); after the loop, the final return.
StreamWrite ==
    /\ gpc = "write"
    /\ IF produced < quota
       THEN \/ /\ ~grpc_closed
               /\ request' = RequestNumSamples
               /\ requests' = Append(requests, RequestNumSamples)
               /\ request_i' = 0
               /\ responses' = << >>
               /\ gpc' = IF 0 < RequestNumSamples THEN "read" ELSE "write"
               /\ UNCHANGED grpc_result
            \/ /\ \E s \in IF grpc_closed THEN {CANCELLED} ELSE StreamErrors :
                    StreamReturn(produced, s)
               /\ UNCHANGED <<request, requests, request_i, responses>>
       ELSE /\ StreamReturn(produced, IF produced # quota THEN INTERNAL ELSE OK)
            /\ UNCHANGED <<request, requests, request_i, responses>>
    /\ UNCHANGED <<samples_per_request_, quota, produced, grpc_closed, server>>
    /\ UNCHANGED outside_gvars

\* A response of the stream, marked with the rank of the item the far end sent
\* it for: info carries the chunk keys of the item's flat trajectory (none when
\* the response has no info), data carries chunk_key (0 when it has no data).
Response(item, has_info, keys, has_data, chunk_key) ==
    [item |-> item, has_info |-> has_info, keys |-> keys, has_data |-> has_data,
     chunk_key |-> chunk_key]

\* What the far end of the stream may do at a read: each element is a response
\* with the state of the far end after it. Once the item before is sent in
\* full the far end begins the next item, with any chunk keys, by a response
\* with info, and with the data of one chunk or none; else it sends the data of
\* one more chunk of the item.
ServerAnswers ==
    IF server.left = {}
    THEN UNION {
           {[response |-> Response(server.item + 1, TRUE, keys, FALSE, 0),
             server |-> [item |-> server.item + 1, keys |-> keys, left |-> keys, count |-> 1]]}
           \cup
           {[response |-> Response(server.item + 1, TRUE, keys, TRUE, k),
             server |-> [item |-> server.item + 1, keys |-> keys, left |-> keys \ {k},
                         count |-> 1]] : k \in keys}
           : keys \in SUBSET ChunkKeys}
    ELSE {[response |-> Response(server.item, FALSE, {}, TRUE, k),
           server |-> [server EXCEPT !.left = @ \ {k}, !.count = @ + 1]] : k \in server.left}

\* GrpcSamplerWorker::FetchSamples: `while (!SampleIsDone(responses))` with
\* stream->Read(&response).
StreamRead ==
    /\ gpc = "read"
    /\ IF SampleIsDone(responses)
       THEN /\ gpc' = "assemble"
            /\ UNCHANGED <<responses, server, grpc_result>>
       ELSE \/ /\ ~grpc_closed
               /\ \E answer \in ServerAnswers :
                    /\ server' = answer.server
                    /\ responses' = Append(responses, answer.response)
               /\ UNCHANGED <<gpc, grpc_result>>
            \/ /\ \E s \in IF grpc_closed THEN {CANCELLED} ELSE StreamErrors :
                    StreamReturn(produced, s)
               /\ UNCHANGED <<responses, server>>
    /\ UNCHANGED <<samples_per_request_, quota, produced, request, request_i, grpc_closed,
                   requests>>
    /\ UNCHANGED outside_gvars

\* GrpcSamplerWorker::FetchSamples: AsSample(std::move(responses), &sample),
\* which may fail on the content of the responses.
StreamAsSample ==
    /\ gpc = "assemble"
    /\ \/ /\ gpc' = "push"
          /\ UNCHANGED grpc_result
       \/ StreamReturn(produced, INTERNAL)
    /\ UNCHANGED <<samples_per_request_, quota, produced, request, request_i, responses,
                   grpc_closed, requests, server>>
    /\ UNCHANGED outside_gvars

\* GrpcSamplerWorker::FetchSamples: queue->Push(std::move(sample)), which the
\* queue refuses once it is closed, then the next round of the for loop.
StreamPush ==
    /\ gpc = "push"
    /\ \/ /\ produced' = produced + 1
          /\ request_i' = request_i + 1
          /\ responses' = << >>
          /\ gpc' = IF request_i + 1 < request THEN "read" ELSE "write"
          /\ UNCHANGED grpc_result
       \/ /\ StreamReturn(produced, CANCELLED)
          /\ UNCHANGED <<produced, request_i, responses>>
    /\ UNCHANGED <<samples_per_request_, quota, request, grpc_closed, requests, server>>
    /\ UNCHANGED outside_gvars

\* GrpcSamplerWorker::Cancel
StreamCancel ==
    /\ gpc \notin {"none", "returned"}
    /\ ~grpc_closed
    /\ grpc_closed' = TRUE
    /\ UNCHANGED <<samples_per_request_, quota, produced, request, request_i, responses, gpc,
                   grpc_result, requests, server>>
    /\ UNCHANGED outside_gvars

StreamNext ==
    \/ StreamOpen
    \/ StreamWrite
    \/ StreamRead
    \/ StreamAsSample
    \/ StreamPush
    \/ StreamCancel

\* FetchSamples has been called on a GrpcSamplerWorker; nothing else is under
\* study.
StreamSpecInit ==
    /\ SamplerApart /\ NoSampleObject /\ NoOptions /\ NoTimedFetch
    /\ StreamFetchInit /\ NoAssembly /\ NoValidation

StreamSpec == StreamSpecInit /\ [][StreamNext]_vars

(* --------------------- TimestepTrajectoryAsSample ---------------------- *)
\* One call of TimestepTrajectoryAsSample. A response is the sequence of the
\* leading dimensions of its tensors, none for a response without data; the
\* responses are taken as the loop comes to them, at most MaxGroups of them.

\* The responses a call may be handed.
ResponseTensors == UNION {[1..n -> 0..MaxBatch] : n \in 0..NumColumns}

\* TimestepTrajectoryAsSample: the lines before the loop. The offset and the
\* length of the flat trajectory are the server's.
AssemblyInit ==
    /\ offset \in 0..MaxBatch
    /\ trajectory_length \in 0..(MaxBatch + 1)
    /\ remaining = trajectory_length
    /\ unpacked = << >>
    /\ last_response = << >>
    /\ apc = "loop"
    /\ assemble_status = NONE

\* TimestepTrajectoryAsSample: batch_size after the tensors of a response, -1
\* when it has none.
BatchSizeOf(tensors) == IF tensors = << >> THEN 0 - 1 ELSE tensors[Len(tensors)]

\* `remaining -= batch_size - offset`, the back of the last chunk not trimmed.
RemainingAfterUntrimmed(batch_size) == remaining - (batch_size - offset)

\* `remaining -= std::min<int64_t>(remaining, batch_size - offset)`
RemainingAfter(batch_size) == remaining - Min(remaining, batch_size - offset)

\* `batch.Slice(offset, std::min<int64_t>(offset + remaining, batch_size))`: the
\* leading dimension of the slice.
SliceRows(batch_size) == Min(offset + remaining, batch_size) - offset

\* TimestepTrajectoryAsSample returns or ends the process.
AssemblyEnds(status) ==
    /\ assemble_status' = status
    /\ apc' = "returned"

\* TimestepTrajectoryAsSample: one round of the loop over the responses.
\* Tensor::Slice ends the process unless 0 <= start <= limit <= dim_size(0).
AssembleResponse ==
    /\ apc = "loop"
    /\ Len(unpacked) < MaxGroups
    /\ \E tensors \in ResponseTensors :
         LET batch_size == BatchSizeOf(tensors) IN
         /\ last_response' = tensors
         /\ IF ~(remaining > 0)
            THEN /\ AssemblyEnds(ABORTED)
                 /\ UNCHANGED <<offset, remaining, unpacked>>
            ELSE IF tensors # << >> /\ offset > batch_size
            THEN /\ AssemblyEnds(ABORTED)
                 /\ UNCHANGED <<offset, remaining, unpacked>>
            ELSE IF \E c \in 1..Len(tensors) : tensors[c] # batch_size
            THEN /\ AssemblyEnds(INTERNAL)
                 /\ UNCHANGED <<offset, remaining, unpacked>>
            ELSE /\ unpacked' = Append(unpacked, [c \in 1..Len(tensors) |-> SliceRows(batch_size)])
                 /\ remaining' = RemainingAfter(batch_size)
                 /\ offset' = 0
                 /\ UNCHANGED <<apc, assemble_status>>
    /\ UNCHANGED trajectory_length
    /\ UNCHANGED outside_avars

\* TimestepTrajectoryAsSample: after the last response, REVERB_CHECK_EQ and the
\* Sample constructor, which ends the process when the first chunk group has no
\* tensor and reads front() of an empty vector when a later one has none.
AssembleSample ==
    /\ apc = "loop"
    /\ unpacked # << >>
    /\ IF remaining # 0
       THEN AssemblyEnds(ABORTED)
       ELSE IF unpacked[1] = << >>
       THEN AssemblyEnds(ABORTED)
       ELSE IF \E g \in 1..Len(unpacked) : unpacked[g] = << >>
       THEN \E status \in {ABORTED, OK} : AssemblyEnds(status)
       ELSE AssemblyEnds(OK)
    /\ UNCHANGED <<offset, remaining, trajectory_length, unpacked, last_response>>
    /\ UNCHANGED outside_avars

AssembleNext ==
    \/ AssembleResponse
    \/ AssembleSample

\* TimestepTrajectoryAsSample has been called; nothing else is under study.
AssembleSpecInit ==
    /\ SamplerApart /\ NoSampleObject /\ NoOptions /\ NoTimedFetch
    /\ NoStreamFetch /\ AssemblyInit /\ NoValidation

AssembleSpec == AssembleSpecInit /\ [][AssembleNext]_vars

(* ------------------- Sampler::ValidateAgainstOutputSpec ---------------- *)
\* One call of Sampler::ValidateAgainstOutputSpec. A tensor is its dtype and
\* its shape, a sequence of dimensions; an entry of the signature is a dtype
\* and a partial shape, of unknown rank or a sequence of dimensions of which
\* -1 is unknown.

\* Dimensions run over 1..MaxDim and ranks over 0..MaxRank.
MaxDim == 2
MaxRank == 2
Dtypes == {"DT_FLOAT", "DT_INT32"}

Shapes == UNION {[1..r -> 1..MaxDim] : r \in 0..MaxRank}
\* tensorflow::PartialTensorShape: of unknown rank, or of dimensions `dims`.
PartialShapes ==
    {[unknown_rank |-> TRUE, dims |-> << >>]} \cup
    {[unknown_rank |-> FALSE, dims |-> dims] :
        dims \in UNION {[1..r -> {0 - 1} \cup 1..MaxDim] : r \in 0..MaxRank}}
Tensors == [dtype : Dtypes, shape : Shapes]
TensorSpecs == [dtype : Dtypes, shape : PartialShapes]
\* The four tensors of key, probability, table size and priority, as scalars
\* in either dtype, and their entries in a signature.
MetaTensors == [dtype : Dtypes, shape : {<< >>}]
MetaSpec == [dtype |-> "DT_FLOAT", shape |-> [unknown_rank |-> FALSE, dims |-> << >>]]

\* The data of a sample: the four metadata tensors, then one column or none.
DataOfSample ==
    {meta \o columns : meta \in [1..4 -> MetaTensors],
                       columns \in {<< >>} \cup {<<t>> : t \in Tensors}}

\* The signatures a sampler may be given: none, or the metadata entries and
\* one column or none.
Signatures ==
    {[has_value |-> FALSE, value |-> << >>]} \cup
    {[has_value |-> TRUE, value |-> [k \in 1..4 |-> MetaSpec] \o columns] :
        columns \in {<< >>} \cup {<<t>> : t \in TensorSpecs}}

\* The sampler's signature and the arguments of one call.
ValidationInit ==
    /\ dtypes_and_shapes \in Signatures
    /\ validated_data \in DataOfSample
    /\ validation_mode \in {"kTimestep", "kBatchedTimestep", "kTrajectory"}
    /\ validation_status = NONE

\* tensorflow::PartialTensorShape::IsCompatibleWith, of a partial shape and the
\* shape of a tensor.
IsCompatibleWith(partial, shape) ==
    IF partial.unknown_rank THEN TRUE
    ELSE IF Len(partial.dims) # Len(shape) THEN FALSE
    ELSE \A d \in 1..Len(shape) : partial.dims[d] < 0 \/ partial.dims[d] = shape[d]

\* The shape compared in kBatchedTimestep mode with its outer dimension left in.
ElemShapeWhole(shape) == shape

\* `elem_shape.RemoveDim(0)`
ElemShape(shape) == Tail(shape)

\* Sampler::ValidateAgainstOutputSpec: the test of data[i] in the loop, with i
\* counted from 1; OK when the loop goes on.
ValidateTensor(entry, tensor, vmode) ==
    IF vmode = "kBatchedTimestep" /\ Len(tensor.shape) = 0 THEN INVALID_ARGUMENT
    ELSE LET shape == IF vmode = "kTimestep" \/ vmode = "kTrajectory"
                      THEN tensor.shape ELSE ElemShape(tensor.shape)
         IN IF tensor.dtype # entry.dtype \/ ~IsCompatibleWith(entry.shape, shape)
            THEN INVALID_ARGUMENT
            ELSE OK

\* Sampler::ValidateAgainstOutputSpec(data, mode), vmode for mode, of a sampler with the
\* signature `signature`: the loop starts at the fifth tensor (`int i = 4`).
ValidateData(signature, tensors, vmode) ==
    IF ~signature.has_value THEN OK
    ELSE IF Len(tensors) # Len(signature.value) THEN INVALID_ARGUMENT
    ELSE IF \E k \in 5..Len(tensors) :
                ValidateTensor(signature.value[k], tensors[k], vmode) # OK
    THEN INVALID_ARGUMENT
    ELSE OK

\* A call of ValidateAgainstOutputSpec(data, mode).
ValidateCall ==
    /\ validation_status = NONE
    /\ validation_status' = ValidateData(dtypes_and_shapes, validated_data, validation_mode)
    /\ UNCHANGED <<dtypes_and_shapes, validated_data, validation_mode>>
    /\ UNCHANGED outside_pvars


\* A sampler has been constructed with or without a signature and data is at
\* hand; nothing else is under study.
ValidateSpecInit ==
    /\ SamplerApart /\ NoSampleObject /\ NoOptions /\ NoTimedFetch
    /\ NoStreamFetch /\ NoAssembly /\ ValidationInit

ValidateSpec == ValidateSpecInit /\ [][ValidateCall]_vars

(* ------------------------------ claims -------------------------------- *)
\* Samples dispatched to a worker and not yet pushed: the quota of every
\* FetchSamples call in progress less what it has pushed.
InFlightWorkers(S) ==
    LET RECURSIVE Sum(_)
        Sum(T) == IF T = {} THEN 0
                  ELSE LET w == CHOOSE x \in T : TRUE
                       IN (IF wpc[w] \in {"fetch", "write", "read", "table", "push"}
                           THEN fetch[w].n - fetch[w].done ELSE 0) + Sum(T \ {w})
    IN Sum(S)

\* Samples held by the consumer: one by a call between its pop and its
\* critical section, one by the timestep cursor.
InFlightConsumer ==
    (IF cpc = "count" THEN 1 ELSE 0) + (IF HasActiveSample THEN 1 ELSE 0)

\* C1: in every reachable state requested <= max_samples, whatever the
\* interleaving of dispatches and refunds.
C1_RequestedAtMostMax == requested <= max_samples

\* C1 witness: a worker was dispatched with the remainder max_samples -
\* requested after an earlier fetch had pushed a sample and been refunded.
C1_Witness ==
    \E w \in Workers :
        /\ wpc[w] = "fetch"
        /\ fetch[w].n < max_samples_per_stream
        /\ pushed > 0
        /\ requested = max_samples

\* C2: in every reachable state returned <= requested, for both kinds of
\* worker and after every refund.
C2_ReturnedAtMostRequested == returned <= requested

\* No worker is between the return of FetchSamples and its refund.
NoRefundPending == \A w \in Workers : wpc[w] # "refund"

\* C3: whenever no refund is pending, requested - returned is the number of
\* samples in the queue plus the number in flight.
C3_Accounting ==
    NoRefundPending =>
        requested - returned = Len(samples) + InFlightWorkers(Workers) + InFlightConsumer

\* C4: the consumer takes the samples in the order of their pushes, each once:
\* the k-th successful pop takes the sample of the k-th successful push, and
\* the queue holds the samples pushed after it in the order of their pushes.
C4_Fifo ==
    /\ last_popped = popped
    /\ \A i \in 1..Len(samples) : samples[i] = popped + i

\* C4 witness: two workers have each pushed one sample, and the consumer has
\* been handed both.
C4_Witness ==
    /\ \A w \in Workers : wpc[w] = "refund" /\ result[w].first = 1
    /\ popped = 2
    /\ cpc = "idle"
    /\ cres = OK

\* A step in which a consumer call returns.
CallReturns ==
    cpc' = "idle" /\ (cpc # "idle" \/ cres' # cres \/ active_sample' # active_sample)
\* worker_status_ when the call that returns began.
StatusAtCall == IF cpc = "idle" THEN worker_status ELSE call_status
\* closed_ when the call that returns began.
ClosedAtCall == IF cpc = "idle" THEN closed ELSE call_closed
\* A step in which a consumer call whose pop failed returns.
FailedPopReturns == cpc = "status" /\ cpc' = "idle"

\* C5 as stated: every consumer call that begins after a worker has reported a
\* non-transient error returns that error.
C5_EveryCallReturnsError ==
    [][(CallReturns /\ StatusAtCall # OK) => cres' = StatusAtCall]_vars

\* C5 as amended: worker_status takes the error of the first worker to report a
\* non-transient one and keeps it, and a consumer call that began after it and
\* whose pop fails returns it, unless returned == max_samples (out of range)
\* or closed is set (cancelled).
C5_FirstErrorSticky ==
    [][ /\ worker_status # OK => worker_status' = worker_status
        /\ (worker_status = OK /\ worker_status' # OK) =>
               \E w \in Workers : /\ wpc[w] = "refund"
                                  /\ wpc'[w] = "done"
                                  /\ worker_status' = result[w].status
                                  /\ worker_status' \notin {OK, UNAVAILABLE}
        /\ (FailedPopReturns /\ call_status # OK) =>
               cres' = IF returned = max_samples THEN OUT_OF_RANGE
                       ELSE IF closed THEN CANCELLED
                       ELSE call_status ]_vars

\* C5 witness: the consumer was returned the first worker's error while a
\* second worker is about to report another one.
C5_Witness ==
    /\ worker_status = INTERNAL
    /\ cpc = "idle"
    /\ cres = INTERNAL
    /\ \E w \in Workers : wpc[w] = "refund" /\ result[w].status = CANCELLED

\* C6: a pop that finds the queue closed and empty returns OUT_OF_RANGE if
\* returned == max_samples, else CANCELLED if closed, else worker_status, and
\* changes none of requested, returned, worker_status and closed.
C6_PopFailurePriority ==
    [][ /\ (cpc = "pop" /\ cpc' = "status") =>
               (samples = << >> /\ samples_closed /\ UNCHANGED core)
        /\ FailedPopReturns =>
               /\ UNCHANGED core
               /\ returned = max_samples => cres' = OUT_OF_RANGE
               /\ (returned # max_samples /\ closed) => cres' = CANCELLED
               /\ (returned # max_samples /\ ~closed) => cres' = worker_status ]_vars

\* C6 witness: a failed pop returned OUT_OF_RANGE although closed was set.
C6_Witness ==
    /\ cpc = "idle"
    /\ cres = OUT_OF_RANGE
    /\ closed
    /\ returned = max_samples

\* C7 as stated: a consumer call that begins after Close() was invoked with
\* returned < max_samples returns cancelled.
C7_NextCallCancelled ==
    [][(CallReturns /\ ClosedAtCall /\ returned < max_samples) => cres' = CANCELLED]_vars

\* C7 as amended: a consumer call that begins after Close() was invoked with
\* returned < max_samples and whose pop finds the queue closed and empty
\* returns cancelled.
C7_FailedPopCancelled ==
    [][(FailedPopReturns /\ call_closed /\ returned < max_samples) => cres' = CANCELLED]_vars

\* C7 witness: with no worker error recorded, a call made after Close()
\* returned cancelled.
C7_Witness ==
    /\ closed
    /\ returned < max_samples
    /\ worker_status = OK
    /\ cpc = "idle"
    /\ cres = CANCELLED

\* C8: once any call of Close() has returned, no worker thread is running (so
\* none pushes).
C8_NoWorkerAfterClose ==
    close_returned => \A w \in Workers : wpc[w] = "done"

\* Close() has returned after its join, every worker thread has exited and no
\* consumer call is in progress.
AllUnblocked ==
    /\ kpc = "returned"
    /\ \A w \in Workers : wpc[w] = "done"
    /\ cpc = "idle"

C10_CloseIdempotent ==
    [][(~close_again /\ close_again') =>
           /\ closed
           /\ UNCHANGED <<core, queue, wclosed, kpc, ki>>]_vars

\* C10 witness: Close() was called again after the first call had cancelled
\* the workers, closed the queue and joined the threads.
C10_Witness ==
    /\ close_again
    /\ kpc = "returned"
    /\ pushed > 0

\* C11: once worker_status is non-OK its value never changes again, whatever
\* the workers report afterwards: another error, or the CANCELLED of a fetch
\* that was in flight when Close() ran.
C11_StatusNeverChanges ==
    [][worker_status # OK => worker_status' = worker_status]_vars

\* C11 witness: an error is recorded, Close() has cancelled the workers, and a
\* fetch that was in flight has come back with CANCELLED for its refund.
C11_Witness ==
    /\ worker_status = DEADLINE_EXCEEDED
    /\ closed
    /\ \E w \in Workers : /\ wclosed[w]
                          /\ wpc[w] = "refund"
                          /\ result[w].status = CANCELLED

\* A step in which a consumer call returns OK having handed over the whole of
\* a sample: GetNextSample, GetNextTrajectory, or the GetNextTimestep that
\* exhausts the active sample.
SampleHandedOver ==
    /\ CallReturns
    /\ cres' = OK
    /\ op \in {"sample", "trajectory"} \/ ~(active_sample'.left > 0)

\* C12: returned increases by exactly one, in the steps that hand a whole
\* sample to the consumer and in no other; it never exceeds max_samples; when
\* it is max_samples the queue is closed and every consumer call returns
\* OUT_OF_RANGE.
C12_ReturnedCounts ==
    /\ [](returned <= max_samples)
    /\ [](returned = max_samples => samples_closed)
    /\ [][ /\ returned' # returned => (returned' = returned + 1 /\ SampleHandedOver)
           /\ SampleHandedOver => returned' = returned + 1
           /\ (CallReturns /\ returned = max_samples) => cres' = OUT_OF_RANGE ]_vars

\* C12 witness: the consumer has iterated a sample of two timesteps to its end,
\* max_samples samples have been returned, and the call after that returned
\* OUT_OF_RANGE although neither Close() was called nor a worker failed.
C12_Witness ==
    /\ returned = max_samples
    /\ max_samples = MaxSamples
    /\ active_sample.kind = "T2"
    /\ cpc = "idle"
    /\ cres = OUT_OF_RANGE
    /\ ~closed
    /\ worker_status = OK

\* C13: the refund of a fetch that ended with UNAVAILABLE leaves worker_status
\* and the queue as they are and sends the worker back to its wait for quota,
\* from where it exits only if the sampler is to stop and otherwise calls
\* FetchSamples again, which opens a new stream; the refund of a fetch that
\* ended with any other error while worker_status is OK records the error,
\* closes the queue and ends the worker thread.
C13_TransientNotSticky ==
    [][\A w \in Workers :
        /\ (wpc[w] = "refund" /\ wpc'[w] # "refund" /\ result[w].status = UNAVAILABLE) =>
               /\ UNCHANGED <<worker_status, samples_closed>>
               /\ wpc'[w] = "wait"
        /\ (wpc[w] = "refund" /\ wpc'[w] # "refund" /\ worker_status = OK
               /\ result[w].status \notin {OK, UNAVAILABLE}) =>
               /\ worker_status' = result[w].status
               /\ samples_closed'
               /\ wpc'[w] = "done"
        /\ (wpc[w] = "wait" /\ wpc'[w] # "wait") =>
               wpc'[w] = IF should_stop_workers THEN "done" ELSE "fetch"
        /\ (wpc[w] = "fetch" /\ wpc'[w] # "fetch" /\ mode = "grpc" /\ ~wclosed[w]) =>
               wpc'[w] = "write" ]_vars

\* C13 witness: a stream pushed one sample of its quota and ended with
\* UNAVAILABLE; worker_status is OK, the queue is open, and a worker has opened
\* a new stream for the part of the quota that was refunded (no other result
\* refunds a part of a quota and leaves the sampler running).
C13_Witness ==
    /\ mode = "grpc"
    /\ worker_status = OK
    /\ ~closed
    /\ ~samples_closed
    /\ pushed = 1
    /\ requested = max_samples
    /\ \E w \in Workers : /\ wpc[w] = "write"
                          /\ fetch[w].done = 0
                          /\ fetch[w].n < Min(max_samples_per_stream, max_samples)

\* C14: a consumer call that returns INVALID_ARGUMENT has removed no sample
\* from the queue and has left requested and returned as they were.
C14_InvalidArgumentNoChange ==
    [][(CallReturns /\ cres' = INVALID_ARGUMENT) =>
           UNCHANGED <<samples, popped, requested, returned>>]_vars

\* The two calls that materialize a Sample.
Materializations == {"AsBatchedTimesteps", "AsTrajectory"}

\* C15: next_timestep_called is never reset; once it is set, AsBatchedTimesteps
\* and AsTrajectory return DATA_LOSS and leave chunks and the cursor as they
\* are; a call of either that returns OK leaves the Sample at end-of-sample.
C15_ViewsExclusive ==
    [][ /\ next_timestep_called => next_timestep_called'
        /\ (next_timestep_called /\ sample_call' \in Materializations) =>
               /\ sample_status' = DATA_LOSS
               /\ UNCHANGED <<chunks, next_timestep_index>>
        /\ (sample_call' \in Materializations /\ sample_status' = OK) =>
               chunks' = << >> ]_vars

\* C15 witness: AsTrajectory returned DATA_LOSS on a Sample whose cursor stands
\* inside the first of its two chunk groups.
C15_Witness ==
    /\ next_timestep_called
    /\ sample_call = "AsTrajectory"
    /\ sample_status = DATA_LOSS
    /\ next_timestep_index > 0
    /\ Len(chunks) = 2

\* The rows of the chunk groups cs from row i of group g on: group after group,
\* and within a group by index.
RECURSIVE RowsFrom(_, _, _)
RowsFrom(cs, g, i) ==
    IF g > Len(cs) THEN << >>
    ELSE IF i > Len(cs[g][1]) THEN RowsFrom(cs, g + 1, 1)
    ELSE << [c \in Columns |-> <<g, i>>] >> \o RowsFrom(cs, g, i + 1)

\* The Sample was built decomposable into timesteps and no materialization has
\* emptied it.
Iterable ==
    /\ \A c \in Columns :
           Len(Concat(ColumnChunks(built, c))) = Len(Concat(ColumnChunks(built, 1)))
    /\ next_timestep_called \/ chunks = built

\* C16: on a Sample decomposable into timesteps with batch sizes b1..bk,
\* GetNextTimestep succeeds b1 + ... + bk times and no more; the rows come
\* group after group and within a group by index; next_timestep_index stays
\* below the batch size of the head group; the Sample is at end-of-sample after
\* the last of these calls and not before, and stays there.
C16_TimestepIteration ==
    /\ [](Len(timesteps) <= SumOfBatchSizes(built))
    /\ [](timesteps = SubSeq(RowsFrom(built, 1, 1), 1, Len(timesteps)))
    /\ [](~is_end_of_sample => next_timestep_index < Len(chunks[1][1]))
    /\ [](next_timestep_called =>
             (is_end_of_sample <=> Len(timesteps) = SumOfBatchSizes(built)))
    /\ [][ /\ is_end_of_sample => is_end_of_sample'
           /\ (Iterable /\ sample_call' = "GetNextTimestep") =>
                  IF Len(timesteps) < SumOfBatchSizes(built)
                  THEN sample_status' = OK /\ Len(timesteps') = Len(timesteps) + 1
                  ELSE sample_status' = ABORTED /\ timesteps' = timesteps ]_vars

\* C16 witness: the five rows of a Sample with chunk groups of batch sizes 2
\* and 3 have been produced, and the Sample is at end-of-sample.
C16_Witness ==
    /\ Len(built) = 2
    /\ Len(built[1][1]) = 2
    /\ Len(built[2][1]) = 3
    /\ Len(timesteps) = 5
    /\ sample_call = "GetNextTimestep"
    /\ sample_status = OK
    /\ is_end_of_sample

\* C17: a call of FetchSamples in which every sample becomes available within
\* rate_limiter_timeout of the previous one (the first within
\* rate_limiter_timeout of the start of the call, and the one awaited at the
\* return still in time to do so) does not return DEADLINE_EXCEEDED, however
\* long the call takes as a whole.
C17_SteadyNeverTimesOut ==
    (fpc = "returned" /\ steady /\ now - last_available < rate_limiter_timeout) =>
        fetch_result.status # DEADLINE_EXCEEDED

\* C18: Options::Validate returns OK when max_samples >= 1 or is UNLIMITED,
\* max_in_flight_samples_per_worker >= 1, num_workers >= 1 or is AUTO,
\* max_samples_per_stream >= 1 or is UNLIMITED, rate_limiter_timeout >= 0 and
\* flexible_batch_size >= 1 or is AUTO, and INVALID_ARGUMENT in every other case.
C18_ValidateExactly ==
    validate_status # NONE =>
        validate_status =
            IF /\ options.max_samples >= 1 \/ options.max_samples = kUnlimitedMaxSamples
               /\ options.max_in_flight_samples_per_worker >= 1
               /\ options.num_workers >= 1 \/ options.num_workers = kAutoSelectValue
               /\ \/ options.max_samples_per_stream >= 1
                  \/ options.max_samples_per_stream = kUnlimitedMaxSamples
               /\ options.rate_limiter_timeout >= 0
               /\ \/ options.flexible_batch_size >= 1
                  \/ options.flexible_batch_size = kAutoSelectValue
            THEN OK
            ELSE INVALID_ARGUMENT

\* C18 witness: Validate has rejected options whose only fault is a negative
\* rate_limiter_timeout, the other fields at their sentinels or at 1.
C18_Witness ==
    /\ validate_status = INVALID_ARGUMENT
    /\ options.max_samples = kUnlimitedMaxSamples
    /\ options.max_in_flight_samples_per_worker = 1
    /\ options.num_workers = kAutoSelectValue
    /\ options.max_samples_per_stream = kUnlimitedMaxSamples
    /\ options.rate_limiter_timeout < 0
    /\ options.flexible_batch_size = kAutoSelectValue

\* C19: every return of FetchSamples reports as its first component the
\* number of samples that call has pushed to the queue.
C19_ProducedIsPushed ==
    \A w \in Workers : wpc[w] = "refund" => result[w].first = fetch[w].done

\* A step in which the refund of a fetch that ended with UNAVAILABLE is made.
UnavailableRefund(w) ==
    wpc[w] = "refund" /\ wpc'[w] # "refund" /\ result[w].status = UNAVAILABLE

RECURSIVE SumOfRequests(_)
\* The samples asked of the server by the requests `rs`.
SumOfRequests(rs) == IF rs = << >> THEN 0 ELSE Head(rs) + SumOfRequests(Tail(rs))

\* The step writes a request.
WritesRequest == requests' # requests

\* C21: a GrpcSamplerWorker never has more than samples_per_request samples
\* asked of the server and not yet pushed; a request is written only when every
\* sample of the requests before it has been pushed, and asks for
\* min(samples_per_request, n - produced) samples, which is at least 1; and a
\* fetch that returns OK has asked for n samples in all.
C21_RequestsWithinQuota ==
    /\ [](/\ SumOfRequests(requests) - produced \in 0..samples_per_request_
          /\ (gpc = "returned" /\ grpc_result.status = OK) => SumOfRequests(requests) = quota)
    /\ [][WritesRequest =>
            /\ SumOfRequests(requests) = produced
            /\ requests' = Append(requests, request')
            /\ request' >= 1
            /\ request' <= samples_per_request_ /\ request' <= quota - produced
            /\ request' = samples_per_request_ \/ request' = quota - produced]_vars

\* A fetch has returned OK after two requests, the last one for what was left
\* of the quota, less than samples_per_request.
C21_Witness ==
    /\ gpc = "returned" /\ grpc_result.status = OK
    /\ Len(requests) = 2
    /\ requests[2] < samples_per_request_
    /\ SumOfRequests(requests) = quota

\* The data-bearing responses of `rs` cover the chunk keys its first response
\* declares.
Covers(rs) ==
    /\ rs # << >>
    /\ \A key \in rs[1].keys :
         \E j \in 1..Len(rs) : rs[j].has_data /\ rs[j].chunk_key = key

\* C22: the worker takes a sample as complete exactly when it has a response
\* and the data of its responses cover the chunk keys the first one declares:
\* when it materializes, the responses it holds cover them and the responses
\* before the last did not; they are the responses of one item, all of them,
\* and none of the next item.
C22_SampleCompleteExactly ==
    /\ gpc \in {"assemble", "push"} =>
         /\ Covers(responses)
         /\ ~Covers(SubSeq(responses, 1, Len(responses) - 1))
         /\ \A j \in 1..Len(responses) : responses[j].item = produced + 1
         /\ server.item = produced + 1
         /\ server.left = {}
         /\ Len(responses) = server.count
    /\ gpc = "read" =>
         /\ \A j \in 1..Len(responses) : responses[j].item = produced + 1
         /\ ~Covers(SubSeq(responses, 1, Len(responses) - 1))

\* The second sample of a fetch is complete after a first response without
\* data and the data of two chunks.
C22_Witness ==
    /\ gpc = "assemble"
    /\ produced = 1
    /\ Len(responses) = 3
    /\ ~responses[1].has_data
    /\ responses[1].keys = ChunkKeys

RECURSIVE SumOfLeadingDimensions(_)
\* The sum over the chunk groups `gs` of the leading dimension of their first
\* tensor.
SumOfLeadingDimensions(gs) ==
    IF gs = << >> THEN 0 ELSE Head(gs)[1] + SumOfLeadingDimensions(Tail(gs))

\* The step takes a response through the loop of TimestepTrajectoryAsSample and
\* emits its chunk group.
ProcessesResponse == unpacked' # unpacked

\* C23 as stated: after each response with batch size B, remaining is
\* remaining - (B - offset) and offset is 0; remaining is positive before every
\* response, never negative and 0 after the last one, and the leading
\* dimensions of the chunk groups sum to the declared trajectory length.
C23_RemainingUntrimmed ==
    /\ [](/\ remaining >= 0
          /\ assemble_status = OK =>
               /\ remaining = 0
               /\ SumOfLeadingDimensions(unpacked) = trajectory_length)
    /\ [][ProcessesResponse =>
            /\ remaining > 0
            /\ remaining' = remaining - (BatchSizeOf(last_response') - offset)
            /\ offset' = 0]_vars

\* C23, amended: after each response with batch size B (-1 for a response
\* without tensors), remaining is remaining - min(remaining, B - offset) and
\* offset is 0; remaining is positive before every response that is processed,
\* never negative, and 0 when the call returns OK; the leading dimensions of
\* the chunk groups then sum to the declared trajectory length, provided every
\* response had a tensor.
C23_RemainingTrimmed ==
    /\ [](/\ remaining >= 0
          /\ assemble_status = OK =>
               /\ remaining = 0
               /\ (\A g \in 1..Len(unpacked) : unpacked[g] # << >>) =>
                    SumOfLeadingDimensions(unpacked) = trajectory_length)
    /\ [][ProcessesResponse =>
            /\ remaining > 0
            /\ LET B == BatchSizeOf(last_response')
               IN \/ B - offset >= remaining /\ remaining' = 0
                  \/ B - offset < remaining /\ remaining' = remaining - (B - offset)
            /\ offset' = 0]_vars

\* A call has returned OK after two responses, the first trimmed at the front
\* and the last at the back.
C23_Witness ==
    /\ assemble_status = OK
    /\ Len(unpacked) = 2
    /\ unpacked[2][1] < last_response[1]
    /\ unpacked[1][1] + unpacked[2][1] = trajectory_length
    /\ trajectory_length = MaxBatch + 1

\* C24: a LocalSamplerWorker never passes the table a timeout longer than
\* kWakeupTimeout (3 s) or than final_deadline - now; the call fails with
\* DEADLINE_EXCEEDED only when the table call ends at or after final_deadline,
\* and then counts no sample (before, a table call that times out leads back to
\* the test of closed_); and with closed_ set no further table call is started:
\* the test at the head of the loop returns CANCELLED, unless the quota is
\* complete and the call returns OK.
C24_WakeupAndCancel ==
    /\ [](fpc = "table" =>
            /\ timeout <= kWakeupTimeout
            /\ timeout <= final_deadline - now)
    /\ [][/\ (fpc = "table" /\ fetch_result'.status = DEADLINE_EXCEEDED) =>
               /\ now' >= final_deadline
               /\ fetch_result'.first = num_samples_returned
               /\ num_samples_returned' = num_samples_returned
          /\ (fpc = "table" /\ now' = now + timeout /\ now' < final_deadline
                /\ num_samples_returned' = num_samples_returned /\ fpc' # "returned") =>
               fpc' = "head"
          /\ (worker_closed /\ fpc' = "table") => fpc = "table"
          /\ (worker_closed /\ fpc = "head") =>
               /\ fpc' = "returned"
               /\ \/ fetch_result'.status = CANCELLED
                  \/ /\ num_samples_returned = num_samples
                     /\ fetch_result'.status = OK]_vars

\* Cancel() came during a table call that was cut to kWakeupTimeout; the call
\* timed out before final_deadline and FetchSamples returned CANCELLED at the
\* next test of closed_.
C24_Witness ==
    /\ fpc = "returned"
    /\ worker_closed
    /\ fetch_result.status = CANCELLED
    /\ now = kWakeupTimeout
    /\ now < final_deadline

\* The shape `dims` agrees with the signature's shape `partial`: the signature
\* leaves the rank open, or the ranks are equal and every dimension the
\* signature fixes is the tensor's.
AgreesWith(partial, dims) ==
    \/ partial.unknown_rank
    \/ /\ Len(partial.dims) = Len(dims)
       /\ ~\E d \in 1..Len(dims) : partial.dims[d] >= 0 /\ partial.dims[d] # dims[d]

\* The tensor at position k of the data (counted from 1) passes: it has the
\* signature's dtype and an agreeing shape, in kBatchedTimestep mode a shape
\* of rank 1 or more that agrees once its leading dimension is removed.
TensorPasses(k) ==
    LET entry == dtypes_and_shapes.value[k]
        tensor == validated_data[k]
    IN /\ tensor.dtype = entry.dtype
       /\ IF validation_mode = "kBatchedTimestep"
          THEN /\ tensor.shape # << >>
               /\ AgreesWith(entry.shape,
                             [d \in 1..(Len(tensor.shape) - 1) |-> tensor.shape[d + 1]])
          ELSE AgreesWith(entry.shape, tensor.shape)

\* C25: with a signature, validation returns OK exactly when the data has as
\* many tensors as the signature and every tensor from the fifth on passes,
\* whatever the first four are, and INVALID_ARGUMENT otherwise; without a
\* signature it returns OK.
C25_ValidatesFromFifth ==
    validation_status # NONE =>
        /\ validation_status \in {OK, INVALID_ARGUMENT}
        /\ validation_status = OK <=>
             \/ ~dtypes_and_shapes.has_value
             \/ /\ Len(validated_data) = Len(dtypes_and_shapes.value)
                /\ \A k \in 1..Len(validated_data) : k > 4 => TensorPasses(k)

\* Validation in kBatchedTimestep mode has accepted data whose first tensor has
\* another dtype than the signature's first entry and whose fifth tensor agrees
\* with the signature once its leading dimension is removed, and not before.
C25_Witness ==
    /\ validation_status = OK
    /\ dtypes_and_shapes.has_value
    /\ validation_mode = "kBatchedTimestep"
    /\ Len(validated_data) = 5
    /\ validated_data[1].dtype # dtypes_and_shapes.value[1].dtype
    /\ ~dtypes_and_shapes.value[5].shape.unknown_rank
    /\ Len(dtypes_and_shapes.value[5].shape.dims) = 1
    /\ Len(validated_data[5].shape) = 2

\* One of the three reasons for which the queue is ever closed holds.
ReasonToStop == returned = max_samples \/ closed \/ worker_status # OK

\* C26: a consumer call never returns OK without a sample: the queue is closed
\* only while returned == max_samples, closed or a non-OK worker_status holds,
\* so when a pop fails one of them holds, from the failure to the return, and
\* the status the call returns is not OK.
C26_FailedPopNeverOk ==
    /\ [](/\ samples_closed => ReasonToStop
          /\ cpc = "status" => ReasonToStop)
    /\ [][FailedPopReturns => cres' # OK]_vars

\* A call that began before any worker had failed, with no Close() and fewer
\* than max_samples returned, had its pop fail and returned the error a worker
\* reported meanwhile.
C26_Witness ==
    /\ cpc = "idle"
    /\ cres = INTERNAL
    /\ worker_status = INTERNAL
    /\ ~closed
    /\ returned < max_samples
    /\ popped = 0
    /\ pushed = 0

\* C27: a non-OK worker_status implies that the queue is closed, in every state
\* outside the critical sections: the status is set and the queue closed in
\* one critical section, so a pop begun or pending after a fatal worker error
\* does not wait.
C27_ErrorClosesQueue ==
    worker_status # OK => (samples_closed /\ PopReady)

\* A worker has reported a fatal error while the consumer waits in Pop on an
\* empty queue, without Close() and before max_samples were returned.
C27_Witness ==
    /\ worker_status # OK
    /\ cpc = "pop"
    /\ samples = << >>
    /\ ~closed
    /\ returned < max_samples

\* The stop predicate holds for another reason than Close().
StoppedWithoutClose == returned = max_samples \/ worker_status # OK

\* Every worker thread has left its loop.
AllWorkersExited == \A w \in Workers : wpc[w] = "done"

\* The worker is inside FetchSamples and not at a push: it is about to ask, or
\* waits for, the server or the table.
WaitsForServer(w) == wpc[w] \in {"fetch", "write", "read", "table"}

\* C28 as stated: without any call of Close(), once returned == max_samples or
\* worker_status is non-OK, every worker thread eventually exits its loop.
C28_WorkersExitOnStop == StoppedWithoutClose ~> AllWorkersExited

\* C28 as amended: without any call of Close(), once returned == max_samples or
\* worker_status is non-OK, no worker starts a new FetchSamples; and if the
\* server or table answers the workers that wait for it, so that none waits for
\* ever, every worker thread eventually exits its loop, those waiting for quota
\* and those blocked on a push to the closed queue included.
C28_WorkersExitWhenAnswered ==
    /\ [][\A w \in Workers :
            (StoppedWithoutClose /\ wpc[w] = "wait" /\ wpc'[w] # "wait") =>
                wpc'[w] = "done"]_vars
    /\ (\A w \in Workers : []<>~WaitsForServer(w))
         => (StoppedWithoutClose ~> AllWorkersExited)

\* Without Close(), a worker has reported a fatal error, and the other worker,
\* which was blocked on its push to the full queue, has been refused and is about to
\* leave its loop.
C28_Witness ==
    /\ ~closed
    /\ worker_status = INTERNAL
    /\ samples # << >>
    /\ \E w \in Workers :
         /\ wpc[w] = "refund"
         /\ result[w].status = CANCELLED
         /\ \A v \in Workers \ {w} : wpc[v] = "done"

\* No FetchSamples call has just ended with an error.
NoFetchFailed == \A w \in Workers : result[w].status \in {NONE, OK}

\* The server or table answers every worker that waits for it, and never with
\* an error; no consumer call fails before max_samples samples were returned;
\* and the consumer keeps calling GetNextSample and makes no other call.
ErrorFreeRun ==
    /\ \A w \in Workers : []<>~WaitsForServer(w)
    /\ []NoFetchFailed
    /\ [](cres \in {NONE, OK} \/ returned = max_samples)
    /\ [](cpc # "idle" => op = "sample")
    /\ []<>(cpc # "idle")

\* max_samples samples were handed to the consumer, the queue is empty, every
\* worker thread has exited, and the call after the last sample has returned out of
\* range.
AllReceived ==
    /\ returned = max_samples
    /\ popped = max_samples
    /\ samples = << >>
    /\ AllWorkersExited
    /\ cpc = "idle" => cres \in {OK, OUT_OF_RANGE}

\* C29: without Close(), never more than max_samples samples are returned, a
\* GetNextSample call that returns OK has handed over one more sample, and a
\* call that ends once max_samples were returned is out of range; and in a run
\* without errors in which the server or table always answers and the consumer
\* keeps calling GetNextSample, the consumer eventually has received
\* max_samples samples and then gets out of range, with two workers that wait
\* for quota and block on the full queue of capacity 1.
C29_ErrorFreeLiveness ==
    /\ [](returned <= max_samples /\ popped <= pushed /\ pushed <= max_samples)
    /\ [][(CallReturns /\ op = "sample" /\ cres' = OK) => returned' = returned + 1]_vars
    /\ [][(CallReturns /\ returned = max_samples) => cres' = OUT_OF_RANGE]_vars
    /\ ErrorFreeRun => <>[]AllReceived
    /\ ErrorFreeRun => <>(returned = max_samples /\ cres = OUT_OF_RANGE)

\* The consumer has received max_samples samples, its next call has returned
\* out of range, every worker thread has exited, and no worker has reported an
\* error.
C29_Witness ==
    /\ returned = max_samples
    /\ popped = max_samples
    /\ cres = OUT_OF_RANGE
    /\ cpc = "idle"
    /\ worker_status = OK
    /\ ~closed
    /\ pushed = max_samples
    /\ AllWorkersExited

====
